---- MODULE Spec2Model ----
(***************************************************************************)
(* Model of the presentation layer of the function-minimisation studio:    *)
(* ui/main_window.py (MainWindow) and ui/plot_view.py (PlotView).          *)
(*                                                                         *)
(* A Python call is one action.  A call that raises ends in the state its  *)
(* partial effects have produced, and `last` records what it raised, how   *)
(* often it called the objective function and which signals it emitted.    *)
(***************************************************************************)
EXTENDS Integers, Sequences, FiniteSets, TLC

VARIABLES
    iterations_table,   \* rows held by MainWindow.iterations_table
    plot_view,          \* the three Axes of MainWindow.plot_view
    label_func_evals,   \* text of MainWindow.label_func_evals
    label_outer_iters,  \* text of MainWindow.label_outer_iters
    label_last_step,    \* text of MainWindow.label_last_step
    status_bar,         \* message shown by statusBar()
    last,               \* trace of the most recent call
    arg                 \* the call prepared for the single-call specifications

vars == <<iterations_table, plot_view, label_func_evals, label_outer_iters,
          label_last_step, status_bar, last, arg>>

(***************************************************************************)
(* Bounds of the model.                                                    *)
(***************************************************************************)
MaxIter == 2    \* longest iteration sequence handed to a plotting call
MaxRows == 2    \* most rows the iteration table holds between two clears

(***************************************************************************)
(* Floats.  A float is <<t, n>> and stands for t/10 + n * 0.5e-9: tenths   *)
(* plus half-nanos, which keeps 1.0, 0.5 and 1e-9 exact in 32-bit          *)
(* integers.  One tenth is 2 * 10^8 half-nanos and every n of the model    *)
(* stays far below that, so the order of two floats is the lexicographic   *)
(* order of their pairs.                                                   *)
(***************************************************************************)
NumAdd(a, b) == <<a[1] + b[1], a[2] + b[2]>>
NumSub(a, b) == <<a[1] - b[1], a[2] - b[2]>>
NumLess(a, b) == a[1] < b[1] \/ (a[1] = b[1] /\ a[2] < b[2])
NumNeg(a) == <<0 - a[1], 0 - a[2]>>
NumAbs(a) == IF NumLess(a, <<0, 0>>) THEN NumNeg(a) ELSE a
NumMin(S) == CHOOSE a \in S : \A b \in S : ~NumLess(b, a)
NumMax(S) == CHOOSE a \in S : \A b \in S : ~NumLess(a, b)

DEGENERATE_EPS == <<0, 2>>      \* 1e-9
UNIT_EXPAND == <<10, 0>>        \* 1.0
DEFAULT_PADDING == <<5, 0>>     \* padding: float = 0.5
DEFAULT_GRID_SIZE == 100        \* grid_size: int = 100

Range(s) == {s[i] : i \in DOMAIN s}

(***************************************************************************)
(* Python values handed to MainWindow by its callers.  A value is a record *)
(* [t, v]: None, an int (v an integer), a float (v a float pair) or a str  *)
(* (v the text).                                                           *)
(***************************************************************************)
PyNone == [t |-> "none", v |-> 0]
PyInt(k) == [t |-> "int", v |-> k]
PyFloat(a) == [t |-> "float", v |-> a]
PyStr(txt) == [t |-> "str", v |-> txt]

IsNumber(val) == val.t \in {"int", "float"}

\* bool(val): None, 0, 0.0 and "" are falsy.
py_truthy(val) ==
    CASE val.t = "none" -> FALSE
      [] val.t = "int" -> val.v # 0
      [] val.t = "float" -> val.v # <<0, 0>>
      [] val.t = "str" -> val.v # ""

\* `a or b` without the fallback.
py_or_first(a, b) == a

\* `a or b`
py_or(a, b) == IF py_truthy(a) THEN a ELSE b

\* The strings of the model are not numerals: int() and float() reject them.
py_cast_raises(val) ==
    CASE val.t = "none" -> "TypeError"
      [] val.t = "str" -> "ValueError"
      [] OTHER -> "none"

\* float(val) of a number
py_float(val) ==
    IF val.t = "int" THEN PyFloat(<<10 * val.v, 0>>) ELSE val

\* int() rounding down in place of toward zero.
py_int_floor(val) ==
    IF val.t = "int" THEN val
    ELSE LET a == NumAbs(val.v)
             whole == IF a[2] < 0 /\ a[1] % 10 = 0
                      THEN (a[1] \div 10) - 1
                      ELSE a[1] \div 10
             exact == a[1] % 10 = 0 /\ a[2] = 0
         IN  PyInt(IF NumLess(val.v, <<0, 0>>)
                   THEN (IF exact THEN 0 - whole ELSE 0 - whole - 1)
                   ELSE whole)

\* int(val) of a number: a float is truncated toward zero.
py_int(val) ==
    IF val.t = "int" THEN val
    ELSE LET a == NumAbs(val.v)
             whole == IF a[2] < 0 /\ a[1] % 10 = 0
                      THEN (a[1] \div 10) - 1
                      ELSE a[1] \div 10
         IN  PyInt(IF NumLess(val.v, <<0, 0>>) THEN 0 - whole ELSE whole)

\* Python's == on two numbers, whatever their types.
PyEq(a, b) ==
    IF IsNumber(a) /\ IsNumber(b) THEN py_float(a).v = py_float(b).v ELSE a = b

\* np.array(x, dtype=float): x is a list of values ([t |-> "list"]) or a str.
np_float_array_raises(x) ==
    IF x.t # "list" THEN "ValueError"
    ELSE IF \E i \in DOMAIN x.v : py_cast_raises(x.v[i]) # "none"
    THEN "ValueError"
    ELSE "none"

\* The array itself: a sequence of floats.
np_float_array(x) == [i \in DOMAIN x.v |-> py_float(x.v[i]).v]

PyList(vals) == [t |-> "list", v |-> vals]

(***************************************************************************)
(* A matplotlib Axes: what clear() resets and what the view draws on it.   *)
(***************************************************************************)
BlankAxes ==
    [styled |-> "none", ticks |-> "auto", title |-> "", labels |-> <<>>,
     artists |-> <<>>]

\* clear() resetting the style of an Axes and keeping what is drawn on it.
ax_clear_keeps_artists(ax) == [BlankAxes EXCEPT !.artists = ax.artists]

ax_clear(ax) == BlankAxes

_style_2d_axes(ax) == [ax EXCEPT !.styled = "2d"]

_style_3d_axes(ax) == [ax EXCEPT !.styled = "3d"]

ax_text(ax, caption) ==
    [ax EXCEPT !.artists = Append(@, <<"text", caption>>)]

ax_hide_ticks(ax) == [ax EXCEPT !.ticks = "none"]

ax_set_title(ax, t) == [ax EXCEPT !.title = t]

ax_set_labels(ax, ls) == [ax EXCEPT !.labels = ls]

ax_draw(ax, artist) == [ax EXCEPT !.artists = Append(@, artist)]

CAPTION_PLACEHOLDER == "plots appear after the run"
CAPTION_CONTOUR_R2 == "contour / surface only in R2"
CAPTION_SURFACE_R2 == "cannot build the 3D surface"

_apply_cyberpunk_style_all(pv) ==
    [ax_surface |-> _style_3d_axes(pv.ax_surface),
     ax_fk |-> _style_2d_axes(pv.ax_fk),
     ax_contour |-> _style_2d_axes(pv.ax_contour)]

\* _clear_all_axes leaving out the surface Axes.
_clear_all_axes_but_surface(pv) ==
    [ax_fk |-> ax_clear(pv.ax_fk),
     ax_contour |-> ax_clear(pv.ax_contour),
     ax_surface |-> pv.ax_surface]

_clear_all_axes(pv) ==
    [ax_fk |-> ax_clear(pv.ax_fk),
     ax_contour |-> ax_clear(pv.ax_contour),
     ax_surface |-> ax_clear(pv.ax_surface)]

show_placeholder(pv) ==
    LET s == _apply_cyberpunk_style_all(_clear_all_axes(pv))
    IN  [ax_fk |->
             ax_set_title(ax_hide_ticks(ax_text(s.ax_fk, CAPTION_PLACEHOLDER)), ""),
         ax_contour |-> ax_set_title(ax_hide_ticks(s.ax_contour), ""),
         ax_surface |-> ax_set_title(ax_hide_ticks(s.ax_surface), "")]

(***************************************************************************)
(* What a call returns to its caller: the view it leaves, the exception it *)
(* lets escape ("none" when it returns normally) and the number of calls   *)
(* it made to the objective function.                                      *)
(***************************************************************************)
Ret(pv, raised, evals) == [pv |-> pv, raised |-> raised, evals |-> evals]

\* plot_fk resetting only its own Axes on empty input.
plot_fk_resets_own_axes(pv, iterations) ==
    IF iterations = <<>>
    THEN Ret([pv EXCEPT !.ax_fk = show_placeholder(pv).ax_fk], "none", 0)
    ELSE LET ks == [i \in DOMAIN iterations |-> iterations[i].index]
             fs == [i \in DOMAIN iterations |-> py_float(iterations[i].f)]
             a0 == _style_2d_axes(ax_clear(pv.ax_fk))
             a1 == ax_draw(a0, <<"line", ks, fs>>)
             a2 == ax_set_title(ax_set_labels(a1, <<"k", "f(x_k)">>), "f(k)")
         IN  Ret([pv EXCEPT !.ax_fk = a2], "none", 0)

\* plot_fk clearing all three Axes before it draws the curve.
plot_fk_clears_all(pv, iterations) ==
    IF iterations = <<>>
    THEN Ret(show_placeholder(pv), "none", 0)
    ELSE LET ks == [i \in DOMAIN iterations |-> iterations[i].index]
             fs == [i \in DOMAIN iterations |-> py_float(iterations[i].f)]
             a0 == _style_2d_axes(ax_clear(pv.ax_fk))
             a1 == ax_draw(a0, <<"line", ks, fs>>)
             a2 == ax_set_title(ax_set_labels(a1, <<"k", "f(x_k)">>), "f(k)")
         IN  Ret([_clear_all_axes(pv) EXCEPT !.ax_fk = a2], "none", 0)

plot_fk(pv, iterations) ==
    IF iterations = <<>>
    THEN Ret(show_placeholder(pv), "none", 0)
    ELSE LET ks == [i \in DOMAIN iterations |-> iterations[i].index]
             fs == [i \in DOMAIN iterations |-> py_float(iterations[i].f)]
             a0 == _style_2d_axes(ax_clear(pv.ax_fk))
             a1 == ax_draw(a0, <<"line", ks, fs>>)
             a2 == ax_set_title(ax_set_labels(a1, <<"k", "f(x_k)">>), "f(k)")
         IN  Ret([pv EXCEPT !.ax_fk = a2], "none", 0)

(***************************************************************************)
(* np.array(rows, dtype=float) on a list of vectors: rows of one length d  *)
(* stack to shape (n, d); rows of different lengths raise ValueError.      *)
(***************************************************************************)
np_array_raises(rows) ==
    \E i, j \in DOMAIN rows : Len(rows[i]) # Len(rows[j])

np_shape(rows) == <<Len(rows), Len(rows[1])>>

\* The dimension test written as "fewer than two coordinates".
is_unsupported_below_two(rows) == np_shape(rows)[2] < 2

\* Line 250: the trajectory is not a list of points of R^2.
is_unsupported(rows) == Len(np_shape(rows)) # 2 \/ np_shape(rows)[2] # 2

\* The degeneracy test written with <= in place of <.
axis_bounds_at_threshold(col, padding) ==
    LET lo == NumMin(Range(col))
        hi == NumMax(Range(col))
        degenerate == ~NumLess(DEGENERATE_EPS, NumAbs(NumSub(hi, lo)))
        lo1 == IF degenerate THEN NumSub(lo, UNIT_EXPAND) ELSE lo
        hi1 == IF degenerate THEN NumAdd(hi, UNIT_EXPAND) ELSE hi
    IN  <<NumSub(lo1, padding), NumAdd(hi1, padding)>>

(***************************************************************************)
(* Lines 276-290: the plotting interval of one axis of the trajectory.     *)
(***************************************************************************)
axis_bounds(col, padding) ==
    LET lo == NumMin(Range(col))
        hi == NumMax(Range(col))
        degenerate == NumLess(NumAbs(NumSub(hi, lo)), DEGENERATE_EPS)
        lo1 == IF degenerate THEN NumSub(lo, UNIT_EXPAND) ELSE lo
        hi1 == IF degenerate THEN NumAdd(hi, UNIT_EXPAND) ELSE hi
    IN  <<NumSub(lo1, padding), NumAdd(hi1, padding)>>

(***************************************************************************)
(* The objective function is the caller's: func.failAt = k > 0 makes its   *)
(* k-th call of one plotting call raise, 0 makes it never raise.  The grid *)
(* loop of lines 298-301 calls it once per cell, row by row, and stops at  *)
(* the call that raises.                                                   *)
(***************************************************************************)
grid_evals(func, grid_size) ==
    IF func.failAt \in 1..(grid_size * grid_size)
    THEN func.failAt
    ELSE grid_size * grid_size

grid_raises(func, grid_size) == func.failAt \in 1..(grid_size * grid_size)

traj_evals(func, grid_size, n) ==
    IF func.failAt \in (grid_size * grid_size + 1)..(grid_size * grid_size + n)
    THEN func.failAt - grid_size * grid_size
    ELSE n

traj_raises(func, grid_size, n) ==
    func.failAt \in (grid_size * grid_size + 1)..(grid_size * grid_size + n)

\* The captions drawn with the f(k) Axes reset to the placeholder as well.
unsupported_captions_over_all(pv) ==
    [pv EXCEPT
        !.ax_fk = show_placeholder(pv).ax_fk,
        !.ax_contour = ax_text(_style_2d_axes(@), CAPTION_CONTOUR_R2),
        !.ax_surface = ax_text(_style_3d_axes(@), CAPTION_SURFACE_R2)]

\* Lines 251-273: a caption in the contour Axes and one in the surface
\* Axes.
unsupported_captions(pv) ==
    [pv EXCEPT
        !.ax_contour = ax_text(_style_2d_axes(@), CAPTION_CONTOUR_R2),
        !.ax_surface = ax_text(_style_3d_axes(@), CAPTION_SURFACE_R2)]

\* The call without its two clear() calls.
clear_contour_and_surface_skipped(pv) == pv

\* Lines 242-243: the contour and surface Axes are cleared before anything
\* else is looked at.
clear_contour_and_surface(pv) ==
    [pv EXCEPT !.ax_contour = ax_clear(@), !.ax_surface = ax_clear(@)]

plot_contour_trajectory(pv, func, iterations, padding, grid_size) ==
    LET c0 == clear_contour_and_surface(pv)
        rows == [i \in DOMAIN iterations |-> iterations[i].x]
        n == Len(iterations)
    IN  IF iterations = <<>> THEN Ret(show_placeholder(c0), "none", 0)
        ELSE IF np_array_raises(rows) THEN Ret(c0, "ValueError", 0)
        ELSE IF is_unsupported(rows)
        THEN Ret(unsupported_captions(c0), "none", 0)
        ELSE
        LET x1_traj == [i \in DOMAIN rows |-> rows[i][1]]
            x2_traj == [i \in DOMAIN rows |-> rows[i][2]]
            b1 == axis_bounds(x1_traj, padding)
            b2 == axis_bounds(x2_traj, padding)
            grid == <<b1, b2, grid_size>>
            track == << <<"line", x1_traj, x2_traj>>,
                        <<"start", x1_traj[1], x2_traj[1]>>,
                        <<"end", x1_traj[n], x2_traj[n]>> >>
            contour0 == ax_draw(_style_2d_axes(c0.ax_contour), <<"contour", grid>>)
            contour1 ==
                ax_set_title(
                    ax_set_labels([contour0 EXCEPT !.artists = @ \o track],
                                  <<"x1", "x2">>),
                    "levels and trajectory")
            surface0 == ax_draw(_style_3d_axes(c0.ax_surface), <<"surface", grid>>)
            surface1 ==
                ax_set_title(
                    ax_set_labels(
                        [surface0 EXCEPT
                            !.artists = @ \o << <<"aura", x1_traj, x2_traj>> >> \o track],
                        <<"x1", "x2", "f(x1, x2)">>),
                    "surface and trajectory")
        IN  IF grid_raises(func, grid_size)
            THEN Ret(c0, "ObjectiveError", grid_evals(func, grid_size))
            ELSE IF traj_raises(func, grid_size, n)
            THEN Ret([c0 EXCEPT !.ax_contour = contour1, !.ax_surface = surface0],
                     "ObjectiveError",
                     grid_evals(func, grid_size) + traj_evals(func, grid_size, n))
            ELSE Ret([c0 EXCEPT !.ax_contour = contour1, !.ax_surface = surface1],
                     "none",
                     grid_evals(func, grid_size) + traj_evals(func, grid_size, n))

(***************************************************************************)
(* core.iteration_result.IterationResult: the record of one step.          *)
(***************************************************************************)
IterationResult(index, x, f, step_norm, meta) ==
    [index |-> index, x |-> x, f |-> f, step_norm |-> step_norm, meta |-> meta]

EmptyMeta == <<>>

(***************************************************************************)
(* ui.table_view.IterationsTableWidget: one row per record it is handed,   *)
(* with the step value handed alongside, in call order.                    *)
(***************************************************************************)
table_add_iteration(rows, iteration, step_value) ==
    Append(rows, [iteration |-> iteration, step_value |-> step_value])

table_clear_table(rows) == <<>>

(***************************************************************************)
(* Label texts are sequences of characters.  str(n) of an int is its       *)
(* decimal digits; a float under ".3e" is one digit, three decimals and a  *)
(* two-digit signed decimal exponent.                                      *)
(***************************************************************************)
GLYPH == <<"en dash">>

DigitChar(d) == <<"0", "1", "2", "3", "4", "5", "6", "7", "8", "9">>[d + 1]

RECURSIVE Digits(_)
Digits(k) ==
    IF k < 10 THEN <<DigitChar(k)>>
    ELSE Append(Digits(k \div 10), DigitChar(k % 10))

py_str_int(k) ==
    IF k < 0 THEN <<"-">> \o Digits(0 - k) ELSE Digits(k)

\* m * 10^e as <<four-digit mantissa, exponent of its first digit>>,
\* rounding half up where digits are dropped.
RECURSIVE Sci(_, _)
Sci(m, e) ==
    IF m = 0 THEN <<0, 0>>
    ELSE IF m < 1000 THEN Sci(m * 10, e - 1)
    ELSE IF m >= 10000 THEN Sci((m + 5) \div 10, e + 1)
    ELSE <<m, e + 3>>

\* f"{a:.3e}", e.g. "1.300e-08".  With tenths present the half-nanos lie
\* beyond the fourth significant digit and do not show.
py_format_3e(a) ==
    LET b == NumAbs(a)
        sci == IF b[1] # 0 THEN Sci(b[1], -1) ELSE Sci(5 * b[2], -10)
        mant == IF sci[1] = 0 THEN <<"0", "0", "0", "0">> ELSE Digits(sci[1])
        ex == IF sci[2] < 0 THEN 0 - sci[2] ELSE sci[2]
    IN  (IF NumLess(a, <<0, 0>>) THEN <<"-">> ELSE <<>>)
        \o <<mant[1], ".", mant[2], mant[3], mant[4], "e">>
        \o <<IF sci[2] < 0 THEN "-" ELSE "+">>
        \o (IF ex < 10 THEN <<"0">> ELSE <<>>) \o Digits(ex)

(***************************************************************************)
(* MainWindow.  `self` is the record of the window's fields; a method      *)
(* returns the window it leaves, what it raised, the objective calls it    *)
(* made and the signals it emitted.                                        *)
(***************************************************************************)
Out(self, raised, evals, emits) ==
    [self |-> self, raised |-> raised, evals |-> evals, emits |-> emits]

\* n_outer_iters: Optional[int] = None
N_OUTER_ITERS_DEFAULT == PyNone

\* The labels chosen by truthiness in place of `is not None`.
update_run_stats_by_truth(self, func_evals, last_step, n_outer_iters) ==
    [self EXCEPT
        !.label_func_evals =
            <<"f evals: ",
              IF py_truthy(func_evals) THEN py_str_int(func_evals.v) ELSE GLYPH>>,
        !.label_outer_iters =
            <<"outer iters: ",
              IF py_truthy(n_outer_iters) THEN py_str_int(n_outer_iters.v) ELSE GLYPH>>,
        !.label_last_step =
            IF ~py_truthy(last_step)
            THEN <<"step: ", GLYPH>>
            ELSE <<"step: ", py_format_3e(last_step.v)>>]

update_run_stats(self, func_evals, last_step, n_outer_iters) ==
    [self EXCEPT
        !.label_func_evals =
            <<"f evals: ",
              IF func_evals # PyNone THEN py_str_int(func_evals.v) ELSE GLYPH>>,
        !.label_outer_iters =
            <<"outer iters: ",
              IF n_outer_iters # PyNone THEN py_str_int(n_outer_iters.v) ELSE GLYPH>>,
        !.label_last_step =
            IF last_step = PyNone
            THEN <<"step: ", GLYPH>>
            ELSE <<"step: ", py_format_3e(last_step.v)>>]

clear_iterations_table(self) ==
    [self EXCEPT !.iterations_table = table_clear_table(@)]

\* clear_results without its show_placeholder() call.
clear_results_keeps_plot(self) ==
    update_run_stats(clear_iterations_table(self), PyNone, PyNone,
                     N_OUTER_ITERS_DEFAULT)

clear_results(self) ==
    LET s1 == clear_iterations_table(self)
        s2 == [s1 EXCEPT !.plot_view = show_placeholder(@)]
    IN  update_run_stats(s2, PyNone, PyNone, N_OUTER_ITERS_DEFAULT)

\* add_iteration emptying the table before it forwards the record.
add_iteration_on_cleared_table(self, iteration, step_value) ==
    [self EXCEPT
        !.iterations_table =
            table_add_iteration(table_clear_table(@), iteration, step_value)]

add_iteration(self, iteration, step_value) ==
    [self EXCEPT
        !.iterations_table = table_add_iteration(@, iteration, step_value)]

\* The coercions without the cast of the step.
add_iteration_row_raises_unchecked_step(k, x, f_val, step_value) ==
    IF py_cast_raises(k) # "none" THEN py_cast_raises(k)
    ELSE IF np_float_array_raises(x) # "none" THEN np_float_array_raises(x)
    ELSE py_cast_raises(f_val)

\* The exception the keyword arguments of lines 253-259 raise, in the order
\* Python evaluates them.
add_iteration_row_raises(k, x, f_val, step_value) ==
    IF py_cast_raises(k) # "none" THEN py_cast_raises(k)
    ELSE IF np_float_array_raises(x) # "none" THEN np_float_array_raises(x)
    ELSE IF py_cast_raises(f_val) # "none" THEN py_cast_raises(f_val)
    ELSE py_cast_raises(py_or(step_value, PyFloat(<<0, 0>>)))

add_iteration_row(self, k, x, f_val, step_value) ==
    IF add_iteration_row_raises(k, x, f_val, step_value) # "none"
    THEN Out(self, add_iteration_row_raises(k, x, f_val, step_value), 0, <<>>)
    ELSE LET it == IterationResult(
                       py_int(k),
                       np_float_array(x),
                       py_float(f_val),
                       py_float(py_or(step_value, PyFloat(<<0, 0>>))),
                       EmptyMeta)
         IN  Out(add_iteration(self, it, step_value), "none", 0, <<>>)

update_fk_plot(self, iterations) ==
    LET r == plot_fk(self.plot_view, iterations)
    IN  Out([self EXCEPT !.plot_view = r.pv], r.raised, r.evals, <<>>)

\* The forwarding call wrapped in try/except.
update_contour_trajectory_catches(self, func, iterations) ==
    LET r == plot_contour_trajectory(self.plot_view, func, iterations,
                                     DEFAULT_PADDING, DEFAULT_GRID_SIZE)
    IN  Out([self EXCEPT !.plot_view = r.pv], "none", r.evals, <<>>)

update_contour_trajectory(self, func, iterations) ==
    LET r == plot_contour_trajectory(self.plot_view, func, iterations,
                                     DEFAULT_PADDING, DEFAULT_GRID_SIZE)
    IN  Out([self EXCEPT !.plot_view = r.pv], r.raised, r.evals, <<>>)

(***************************************************************************)
(* The engine (app.py) is connected to optimizationRequested and runs      *)
(* inside emit().  It answers at once by pushing its first result, or      *)
(* answers later through the public methods.                               *)
(***************************************************************************)
engine_first_result(cfg) ==
    IterationResult(PyInt(0), cfg.x0, PyFloat(<<10, 0>>), PyFloat(<<0, 0>>),
                    EmptyMeta)

engine_slot(self, cfg, answer) ==
    IF answer = "at once"
    THEN update_fk_plot(add_iteration(self, engine_first_result(cfg), PyNone),
                        <<engine_first_result(cfg)>>).self
    ELSE self

\* The handler emitting before it clears.
_on_run_requested_emits_first(self, cfg, answer) ==
    LET signal == [name |-> "optimizationRequested", cfg |-> cfg, seen |-> self]
        s1 == clear_results(engine_slot(self, cfg, answer))
        s2 == [s1 EXCEPT
                 !.status_bar = <<"run", cfg.function_key, cfg.method_key, cfg.x0>>]
    IN  Out(s2, "none", 0, <<signal>>)

_on_run_requested(self, cfg, answer) ==
    LET s1 == clear_results(self)
        s2 == [s1 EXCEPT
                 !.status_bar = <<"run", cfg.function_key, cfg.method_key, cfg.x0>>]
        signal == [name |-> "optimizationRequested", cfg |-> cfg, seen |-> s2]
    IN  Out(engine_slot(s2, cfg, answer), "none", 0, <<signal>>)

_on_clear_requested(self) ==
    Out([clear_results(self) EXCEPT !.status_bar = <<"cleared">>], "none", 0, <<>>)

(***************************************************************************)
(* Construction: PlotView._build_ui ends in show_placeholder() (line 111)  *)
(* and MainWindow._create_content in update_run_stats(None, None).         *)
(***************************************************************************)
PlotView_init ==
    show_placeholder(
        _apply_cyberpunk_style_all(
            [ax_surface |-> BlankAxes, ax_fk |-> BlankAxes, ax_contour |-> BlankAxes]))

_build_stats_row ==
    [label_func_evals |-> <<"f evals: ", GLYPH>>,
     label_outer_iters |-> <<"outer iters: ", GLYPH>>,
     label_last_step |-> <<"step: ", GLYPH>>]

MainWindow_init ==
    update_run_stats(
        [iterations_table |-> <<>>,
         plot_view |-> PlotView_init,
         label_func_evals |-> _build_stats_row.label_func_evals,
         label_outer_iters |-> _build_stats_row.label_outer_iters,
         label_last_step |-> _build_stats_row.label_last_step,
         status_bar |-> <<"ready">>],
        PyNone, PyNone, N_OUTER_ITERS_DEFAULT)

(***************************************************************************)
(* The state machine.                                                      *)
(***************************************************************************)
Self ==
    [iterations_table |-> iterations_table,
     plot_view |-> plot_view,
     label_func_evals |-> label_func_evals,
     label_outer_iters |-> label_outer_iters,
     label_last_step |-> label_last_step,
     status_bar |-> status_bar]

Becomes(self) ==
    /\ iterations_table' = self.iterations_table
    /\ plot_view' = self.plot_view
    /\ label_func_evals' = self.label_func_evals
    /\ label_outer_iters' = self.label_outer_iters
    /\ label_last_step' = self.label_last_step
    /\ status_bar' = self.status_bar

\* Whether an Axes shows run data (anything but a caption).
HasData(ax) == \E i \in DOMAIN ax.artists : ax.artists[i][1] # "text"

\* What the window showed when the call began.
Before ==
    [fk |-> HasData(plot_view.ax_fk),
     contour |-> HasData(plot_view.ax_contour),
     surface |-> HasData(plot_view.ax_surface),
     rows |-> Len(iterations_table)]

Called(op, args, out) ==
    /\ Becomes(out.self)
    /\ last' = [op |-> op, args |-> args, raised |-> out.raised,
                evals |-> out.evals, emits |-> out.emits, before |-> Before]

NoArg == [pending |-> FALSE, iterations |-> <<>>, padding |-> DEFAULT_PADDING]

IsWindow(self) ==
    /\ iterations_table = self.iterations_table
    /\ plot_view = self.plot_view
    /\ label_func_evals = self.label_func_evals
    /\ label_outer_iters = self.label_outer_iters
    /\ label_last_step = self.label_last_step
    /\ status_bar = self.status_bar

Init ==
    /\ IsWindow(MainWindow_init)
    /\ last = [op |-> "__init__", args |-> <<>>, raised |-> "none", evals |-> 0,
               emits |-> <<>>,
               before |-> [fk |-> FALSE, contour |-> FALSE, surface |-> FALSE,
                           rows |-> 0]]
    /\ arg = NoArg

(***************************************************************************)
(* The values the callers of the model hand in.                            *)
(***************************************************************************)
SeqsUpTo(S, n) == UNION {[1..m -> S] : m \in 0..n}

Iter(k, point, f) ==
    IterationResult(PyInt(k), point, PyFloat(f), PyFloat(<<0, 0>>), EmptyMeta)

\* Points of R^0, R^1, R^2 and R^3.
PlotIters ==
    {Iter(0, <<>>, <<10, 0>>),
     Iter(0, << <<0, 0>> >>, <<10, 0>>),
     Iter(1, << <<10, 0>>, <<0, 0>> >>, <<0, 0>>),
     Iter(0, << <<0, 0>>, <<0, 0>>, <<0, 0>> >>, <<10, 0>>)}

\* What the engine hands the window: nothing, a run in R^2, a run in R^3
\* and a malformed sequence whose points differ in length.
WindowSeqs ==
    {<<>>,
     <<Iter(0, << <<0, 0>>, <<0, 0>> >>, <<10, 0>>),
       Iter(1, << <<10, 0>>, <<0, 0>> >>, <<0, 0>>)>>,
     <<Iter(0, << <<0, 0>>, <<0, 0>>, <<0, 0>> >>, <<10, 0>>)>>,
     <<Iter(0, << <<0, 0>>, <<0, 0>> >>, <<10, 0>>),
       Iter(1, << <<0, 0>> >>, <<0, 0>>)>>}

WindowIters == {Iter(0, << <<0, 0>>, <<0, 0>> >>, <<10, 0>>)}

\* Objective functions: never raising, raising on the second grid cell and
\* raising on the first trajectory point.
Funcs(grid_size) ==
    {[failAt |-> k] : k \in {0, 2, grid_size * grid_size + 1}}

WindowFuncs == Funcs(DEFAULT_GRID_SIZE)

SmallGrid == 2

Configs ==
    {[function_key |-> "rosenbrock", method_key |-> "hooke_jeeves",
      x0 |-> << <<0, 0>>, <<10, 0>> >>],
     [function_key |-> "sphere", method_key |-> "hooke_jeeves",
      x0 |-> << <<10, 0>> >>]}

\* add_iteration_row(3, [1.0, 2.0], 5.5, 0.1) and the calls that differ
\* from it in one argument.
RowCall(k, x, f_val, step_value) ==
    [k |-> k, x |-> x, f_val |-> f_val, step_value |-> step_value]

BaseX == PyList(<<PyFloat(<<10, 0>>), PyFloat(<<20, 0>>)>>)

RowCalls ==
    {RowCall(k, BaseX, PyFloat(<<55, 0>>), PyFloat(<<1, 0>>)) :
        k \in {PyInt(3), PyFloat(<<30, 0>>), PyFloat(<<37, 0>>), PyInt(-3),
               PyFloat(<<-37, 0>>), PyStr("abc"), PyNone}}
    \cup {RowCall(PyInt(3), x, PyFloat(<<55, 0>>), PyFloat(<<1, 0>>)) :
        x \in {PyList(<<PyInt(1), PyInt(2)>>), PyList(<<>>), PyStr("abc"),
               PyList(<<PyFloat(<<10, 0>>), PyStr("abc")>>)}}
    \cup {RowCall(PyInt(3), BaseX, f_val, PyFloat(<<1, 0>>)) :
        f_val \in {PyInt(5), PyStr("abc"), PyNone}}
    \cup {RowCall(PyInt(3), BaseX, PyFloat(<<55, 0>>), step_value) :
        step_value \in {PyNone, PyInt(0), PyFloat(<<0, 0>>), PyStr(""),
                        PyStr("abc"), PyInt(1)}}

WindowRowCalls ==
    {RowCall(PyInt(3), BaseX, PyFloat(<<55, 0>>), PyFloat(<<1, 0>>)),
     RowCall(PyInt(3), BaseX, PyFloat(<<55, 0>>), PyNone),
     RowCall(PyStr("abc"), BaseX, PyFloat(<<55, 0>>), PyNone)}

\* update_run_stats(evals, last_step, outer_iters); outer_iters left out
\* by the caller is its default, None.
StatCalls ==
    {<<e, st, o>> : e \in {PyNone, PyInt(0), PyInt(42)},
                    st \in {PyNone, PyFloat(<<0, 0>>), PyFloat(<<0, 26>>)},
                    o \in {PyNone, PyInt(0), PyInt(7)}}

WindowStatCalls ==
    {<<PyNone, PyNone, PyNone>>,
     <<PyInt(0), PyNone, PyNone>>,
     <<PyInt(42), PyFloat(<<0, 26>>), PyInt(7)>>}

(***************************************************************************)
(* Calls of the public methods of MainWindow.                              *)
(***************************************************************************)
CallClearResults ==
    /\ Called("clear_results", <<>>, Out(clear_results(Self), "none", 0, <<>>))
    /\ UNCHANGED arg

CallClearIterationsTable ==
    /\ Called("clear_iterations_table", <<>>,
              Out(clear_iterations_table(Self), "none", 0, <<>>))
    /\ UNCHANGED arg

AddIterationFrom(iters) ==
    \E it \in iters, step_value \in {PyNone} :
        /\ Len(iterations_table) < MaxRows
        /\ Called("add_iteration", <<it, step_value>>,
                  Out(add_iteration(Self, it, step_value), "none", 0, <<>>))
        /\ UNCHANGED arg

AddIterationRowFrom(calls) ==
    \E c \in calls :
        /\ Len(iterations_table) < MaxRows
        /\ Called("add_iteration_row", c,
                  add_iteration_row(Self, c.k, c.x, c.f_val, c.step_value))
        /\ UNCHANGED arg

CallAddIteration == AddIterationFrom(WindowIters)

CallAddIterationRow == AddIterationRowFrom(WindowRowCalls)

CallUpdateFkPlot ==
    \E its \in WindowSeqs :
        /\ Called("update_fk_plot", [iterations |-> its],
                  update_fk_plot(Self, its))
        /\ UNCHANGED arg

CallUpdateContourTrajectory ==
    \E its \in WindowSeqs, func \in WindowFuncs :
        /\ Called("update_contour_trajectory",
                  [iterations |-> its, func |-> func],
                  update_contour_trajectory(Self, func, its))
        /\ UNCHANGED arg

UpdateRunStatsFrom(calls) ==
    \E c \in calls :
        /\ Called("update_run_stats", c,
                  Out(update_run_stats(Self, c[1], c[2], c[3]), "none", 0, <<>>))
        /\ UNCHANGED arg

CallUpdateRunStats == UpdateRunStatsFrom(WindowStatCalls)

\* The control panel's runRequested and clearRequested signals.
RunRequested ==
    \E cfg \in Configs, answer \in {"at once", "later"} :
        /\ Called("_on_run_requested", [cfg |-> cfg, answer |-> answer],
                  _on_run_requested(Self, cfg, answer))
        /\ UNCHANGED arg

ClearRequested ==
    /\ Called("_on_clear_requested", <<>>, _on_clear_requested(Self))
    /\ UNCHANGED arg

Next ==
    \/ CallClearResults
    \/ CallClearIterationsTable
    \/ CallAddIteration
    \/ CallAddIterationRow
    \/ CallUpdateFkPlot
    \/ CallUpdateContourTrajectory
    \/ CallUpdateRunStats
    \/ RunRequested
    \/ ClearRequested

Spec == Init /\ [][Next]_vars

(***************************************************************************)
(* PlotView on its own: calls of its three public methods.                 *)
(***************************************************************************)
PlotViewCalled(op, args, r) ==
    Called(op, args, Out([Self EXCEPT !.plot_view = r.pv], r.raised, r.evals, <<>>))

CallShowPlaceholder ==
    /\ PlotViewCalled("show_placeholder", <<>>,
                      Ret(show_placeholder(plot_view), "none", 0))
    /\ UNCHANGED arg

CallPlotFk ==
    \E its \in SeqsUpTo(PlotIters, MaxIter) :
        /\ PlotViewCalled("plot_fk", [iterations |-> its],
                          plot_fk(plot_view, its))
        /\ UNCHANGED arg

CallPlotContourTrajectory ==
    \E its \in SeqsUpTo(PlotIters, MaxIter), func \in Funcs(SmallGrid) :
        /\ PlotViewCalled("plot_contour_trajectory",
                          [iterations |-> its, func |-> func,
                           padding |-> DEFAULT_PADDING, grid_size |-> SmallGrid],
                          plot_contour_trajectory(plot_view, func, its,
                                                  DEFAULT_PADDING, SmallGrid))
        /\ UNCHANGED arg

NextPlotView ==
    \/ CallShowPlaceholder
    \/ CallPlotFk
    \/ CallPlotContourTrajectory

SpecPlotView == Init /\ [][NextPlotView]_vars

(***************************************************************************)
(* The iteration table on its own: rows added from primitives or as        *)
(* records, and cleared.                                                   *)
(***************************************************************************)
CallAddIterationRowAny == AddIterationRowFrom(RowCalls)

NextRows ==
    \/ CallAddIterationRowAny
    \/ CallAddIteration
    \/ CallClearResults

SpecRows == Init /\ [][NextRows]_vars

(***************************************************************************)
(* The stat labels: set by the engine, reset by the window's handlers.     *)
(***************************************************************************)
CallUpdateRunStatsAny == UpdateRunStatsFrom(StatCalls)

NextStats ==
    \/ CallUpdateRunStatsAny
    \/ CallClearResults
    \/ RunRequested
    \/ ClearRequested

SpecStats == Init /\ [][NextStats]_vars

(***************************************************************************)
(* One plot_contour_trajectory call on a fresh view, over trajectories in  *)
(* R^2 whose coordinates lie a fraction of the degeneracy threshold apart. *)
(***************************************************************************)
FineCoords == {<<30, 0>>, <<30, 1>>, <<30, 2>>, <<30, 3>>, <<10, 0>>, <<-20, 1>>}

CoarseCoords == {<<30, 0>>, <<30, 2>>}

Paddings == {DEFAULT_PADDING, <<0, 0>>, <<0, 1>>}

BoundsTrajectories ==
    {its \in SeqsUpTo({Iter(0, <<a, b>>, <<0, 0>>) :
                          a \in FineCoords, b \in CoarseCoords}, MaxIter) :
        its # <<>>}

InitBounds ==
    /\ IsWindow(MainWindow_init)
    /\ last = [op |-> "__init__", args |-> <<>>, raised |-> "none", evals |-> 0,
               emits |-> <<>>,
               before |-> [fk |-> FALSE, contour |-> FALSE, surface |-> FALSE,
                           rows |-> 0]]
    /\ \E its \in BoundsTrajectories, padding \in Paddings :
          arg = [pending |-> TRUE, iterations |-> its, padding |-> padding]

CallPrepared ==
    /\ arg.pending
    /\ PlotViewCalled("plot_contour_trajectory",
                      [iterations |-> arg.iterations, func |-> [failAt |-> 0],
                       padding |-> arg.padding, grid_size |-> SmallGrid],
                      plot_contour_trajectory(plot_view, [failAt |-> 0],
                                              arg.iterations, arg.padding,
                                              SmallGrid))
    /\ arg' = [arg EXCEPT !.pending = FALSE]

NextBounds == CallPrepared

SpecBounds == InitBounds /\ [][NextBounds]_vars

(***************************************************************************)
(* Properties.                                                             *)
(***************************************************************************)
\* The Placeholder state of a PlotView: the f(k) Axes shows the caption
\* and nothing else, the contour and surface Axes show nothing, and no
\* Axes has ticks or a title.
IsPlaceholderView(pv) ==
    /\ pv.ax_fk.artists = << <<"text", CAPTION_PLACEHOLDER>> >>
    /\ pv.ax_contour.artists = <<>>
    /\ pv.ax_surface.artists = <<>>
    /\ \A ax \in {pv.ax_fk, pv.ax_contour, pv.ax_surface} :
          ax.ticks = "none" /\ ax.title = "" /\ ax.labels = <<>>
    /\ pv.ax_fk.styled = "2d"
    /\ pv.ax_contour.styled = "2d"
    /\ pv.ax_surface.styled = "3d"

AllStatsAtGlyph ==
    /\ label_func_evals = <<"f evals: ", GLYPH>>
    /\ label_outer_iters = <<"outer iters: ", GLYPH>>
    /\ label_last_step = <<"step: ", GLYPH>>

\* C1: after any sequence of table, plot and stat updates, clear_results()
\* leaves the table empty, the three plot regions in the Placeholder state
\* and the three stat labels at the glyph, which is the state of the same
\* parts of a freshly constructed MainWindow.
C1_ClearRestoresFresh ==
    last.op = "clear_results" =>
        /\ iterations_table = <<>>
        /\ IsPlaceholderView(plot_view)
        /\ AllStatsAtGlyph
        /\ iterations_table = MainWindow_init.iterations_table
        /\ plot_view = MainWindow_init.plot_view
        /\ label_func_evals = MainWindow_init.label_func_evals
        /\ label_outer_iters = MainWindow_init.label_outer_iters
        /\ label_last_step = MainWindow_init.label_last_step

\* C1 witness: clear_results() has run on a window that held rows and drew
\* data in all three regions.
C1_Witness ==
    /\ last.op = "clear_results"
    /\ last.before.rows > 0
    /\ last.before.fk /\ last.before.contour /\ last.before.surface
    /\ iterations_table = <<>>

IsPlotCall(l) == l.op \in {"plot_fk", "plot_contour_trajectory"}

\* C2: plot_fk and plot_contour_trajectory on an empty sequence leave the
\* three regions in the state show_placeholder() produces from the state the
\* call began in, return normally and never call the objective function.
C2_EmptyIsPlaceholder ==
    [][(IsPlotCall(last') /\ last'.args.iterations = <<>>) =>
          /\ plot_view' = show_placeholder(plot_view)
          /\ IsPlaceholderView(plot_view')
          /\ last'.raised = "none"
          /\ last'.evals = 0]_vars

\* C2 witness: an empty plot_fk call has wiped a populated contour and
\* surface.
C2_Witness ==
    /\ last.op = "plot_fk"
    /\ last.args.iterations = <<>>
    /\ last.before.contour /\ last.before.surface
    /\ ~HasData(plot_view.ax_contour) /\ ~HasData(plot_view.ax_surface)

ShowsUnsupported(pv) ==
    /\ pv.ax_contour.artists = << <<"text", CAPTION_CONTOUR_R2>> >>
    /\ pv.ax_surface.artists = << <<"text", CAPTION_SURFACE_R2>> >>

SomePointNot2D(its) == \E i \in DOMAIN its : Len(its[i].x) # 2

SameDimension(its) == \A i, j \in DOMAIN its : Len(its[i].x) = Len(its[j].x)

\* C3 as claimed: every non-empty sequence with a point that is not
\* 2-dimensional, sequences of mixed dimension included, gets the
\* "unsupported" captions, a normal return and no objective call.
C3_AsClaimed ==
    (/\ last.op = "plot_contour_trajectory"
     /\ last.args.iterations # <<>>
     /\ SomePointNot2D(last.args.iterations)) =>
        /\ ShowsUnsupported(plot_view)
        /\ last.raised = "none"
        /\ last.evals = 0

\* C3 amended: a non-empty sequence whose points share one dimension d # 2
\* gets the "unsupported" captions in the contour and the surface region, a
\* normal return and no objective call; a sequence whose points differ in
\* dimension makes np.array raise ValueError, which escapes with both
\* regions cleared, and the objective function is not called either.
C3_UnsupportedDimension ==
    (/\ last.op = "plot_contour_trajectory"
     /\ last.args.iterations # <<>>
     /\ SomePointNot2D(last.args.iterations)) =>
        /\ last.evals = 0
        /\ SameDimension(last.args.iterations) =>
              ShowsUnsupported(plot_view) /\ last.raised = "none"
        /\ ~SameDimension(last.args.iterations) =>
              /\ last.raised = "ValueError"
              /\ plot_view.ax_contour = BlankAxes
              /\ plot_view.ax_surface = BlankAxes

\* C3 witness: a run in R^3 has been shown as unsupported.
C3_Witness ==
    /\ last.op = "plot_contour_trajectory"
    /\ last.args.iterations # <<>>
    /\ \A i \in DOMAIN last.args.iterations : Len(last.args.iterations[i].x) = 3
    /\ last.args.func.failAt # 0
    /\ ShowsUnsupported(plot_view)
    /\ last.before.contour

\* The interval the claim gives one axis of a trajectory: widened by 1.0 on
\* each side when its extent is below 1e-9, and by the padding in any case.
ClaimedBounds(col, padding) ==
    LET lo == NumMin(Range(col))
        hi == NumMax(Range(col))
        extent == NumSub(hi, lo)
    IN  IF NumLess(extent, <<0, 2>>)
        THEN <<<<lo[1] - 10 - padding[1], lo[2] - padding[2]>>,
               <<hi[1] + 10 + padding[1], hi[2] + padding[2]>>>>
        ELSE <<<<lo[1] - padding[1], lo[2] - padding[2]>>,
               <<hi[1] + padding[1], hi[2] + padding[2]>>>>

Column(its, c) == [i \in DOMAIN its |-> its[i].x[c]]

\* The grid drawn in the contour region: <<x1 interval, x2 interval, size>>.
DrawnGrid(ax) == ax.artists[1][2]

\* C4: on a 2-dimensional trajectory the plotting interval of an axis whose
\* extent is below the threshold is [min - 1 - padding, max + 1 + padding],
\* which spans at least 2 + 2 * padding; an axis whose extent is at or above
\* the threshold gets [min - padding, max + padding].  The contour and the
\* surface are drawn over the same intervals.
C4_DegenerateAxisBounds ==
    (last.op = "plot_contour_trajectory" /\ last.raised = "none") =>
        LET its == last.args.iterations
            pad == last.args.padding
            g == DrawnGrid(plot_view.ax_contour)
        IN  /\ g[1] = ClaimedBounds(Column(its, 1), pad)
            /\ g[2] = ClaimedBounds(Column(its, 2), pad)
            /\ DrawnGrid(plot_view.ax_surface) = g
            /\ \A c \in {1, 2} :
                  NumLess(NumSub(NumMax(Range(Column(its, c))),
                                 NumMin(Range(Column(its, c)))), <<0, 2>>)
                  => ~NumLess(NumSub(g[c][2], g[c][1]),
                              <<20 + 2 * pad[1], 2 * pad[2]>>)

\* C4 witness: the x1 extent is 0.5e-9 (below the threshold, not zero) and
\* the x2 extent is exactly 1e-9 (at the threshold).
C4_Witness ==
    /\ last.op = "plot_contour_trajectory"
    /\ last.raised = "none"
    /\ NumSub(NumMax(Range(Column(last.args.iterations, 1))),
              NumMin(Range(Column(last.args.iterations, 1)))) = <<0, 1>>
    /\ NumSub(NumMax(Range(Column(last.args.iterations, 2))),
              NumMin(Range(Column(last.args.iterations, 2)))) = <<0, 2>>
    /\ last.args.padding = DEFAULT_PADDING
    /\ DrawnGrid(plot_view.ax_contour)[1] = <<<<15, 0>>, <<45, 1>>>>
    /\ DrawnGrid(plot_view.ax_contour)[2] = <<<<25, 0>>, <<35, 2>>>>

\* C5: a run request first completes clear_results() and then emits
\* optimizationRequested exactly once with the configuration it was given:
\* at the emission the table is empty, the plot is in the Placeholder state
\* and the stats are at the glyph, and what the engine pushes in answer is
\* still shown when the handler returns.
C5_ClearThenEmitOnce ==
    last.op = "_on_run_requested" =>
        /\ Len(last.emits) = 1
        /\ last.emits[1].name = "optimizationRequested"
        /\ last.emits[1].cfg = last.args.cfg
        /\ last.emits[1].seen.iterations_table = <<>>
        /\ IsPlaceholderView(last.emits[1].seen.plot_view)
        /\ last.emits[1].seen.label_func_evals = <<"f evals: ", GLYPH>>
        /\ last.emits[1].seen.label_outer_iters = <<"outer iters: ", GLYPH>>
        /\ last.emits[1].seen.label_last_step = <<"step: ", GLYPH>>
        /\ last.raised = "none"
        /\ last.args.answer = "at once" =>
              /\ Len(iterations_table) = 1
              /\ iterations_table[1].iteration = engine_first_result(last.args.cfg)
              /\ HasData(plot_view.ax_fk)
        /\ last.args.answer = "later" =>
              iterations_table = <<>> /\ IsPlaceholderView(plot_view)

\* C5 witness: a run was requested on a window showing rows and plots, and
\* the engine answered at once.
C5_Witness ==
    /\ last.op = "_on_run_requested"
    /\ last.before.rows = MaxRows
    /\ last.before.fk /\ last.before.contour /\ last.before.surface
    /\ last.args.answer = "at once"
    /\ Len(last.emits) = 1
    /\ Len(iterations_table) = 1

LabelBody(label) == label[2]

\* C6: update_run_stats sets each label from its own argument: the glyph if
\* and only if the argument is None, so 0 is rendered as a number; the
\* texts depend on this call alone; and clear_results, which calls
\* update_run_stats(None, None), leaves all three labels at the glyph.
C6_GlyphIffAbsent ==
    /\ last.op = "update_run_stats" =>
          /\ LabelBody(label_func_evals) = GLYPH <=> last.args[1] = PyNone
          /\ LabelBody(label_last_step) = GLYPH <=> last.args[2] = PyNone
          /\ LabelBody(label_outer_iters) = GLYPH <=> last.args[3] = PyNone
          /\ last.args[1] = PyInt(0) => label_func_evals = <<"f evals: ", <<"0">>>>
          /\ last.args[1] = PyInt(42)
                => label_func_evals = <<"f evals: ", <<"4", "2">>>>
          /\ last.args[3] = PyInt(0)
                => label_outer_iters = <<"outer iters: ", <<"0">>>>
          /\ last.args[3] = PyInt(7)
                => label_outer_iters = <<"outer iters: ", <<"7">>>>
          /\ last.args[2] = PyFloat(<<0, 0>>)
                => label_last_step =
                     <<"step: ", <<"0", ".", "0", "0", "0", "e", "+", "0", "0">>>>
          /\ last.args[2] = PyFloat(<<0, 26>>)
                => label_last_step =
                     <<"step: ", <<"1", ".", "3", "0", "0", "e", "-", "0", "8">>>>
          /\ label_func_evals[1] = "f evals: "
          /\ label_outer_iters[1] = "outer iters: "
          /\ label_last_step[1] = "step: "
    /\ last.op = "clear_results" => AllStatsAtGlyph

\* C6 witness: update_run_stats(0, 0.0) has been called: two labels show a
\* zero and the third, left at its default, shows the glyph.
C6_Witness ==
    /\ last.op = "update_run_stats"
    /\ last.args = <<PyInt(0), PyFloat(<<0, 0>>), PyNone>>
    /\ label_func_evals = <<"f evals: ", <<"0">>>>
    /\ label_last_step =
          <<"step: ", <<"0", ".", "0", "0", "0", "e", "+", "0", "0">>>>
    /\ label_outer_iters = <<"outer iters: ", GLYPH>>

LastRow == iterations_table[Len(iterations_table)]

RowAdded(op) == last.op = op /\ last.raised = "none"

NumericList(x) == x.t = "list" /\ \A i \in DOMAIN x.v : IsNumber(x.v[i])

NumericCall(c) ==
    /\ IsNumber(c.k) /\ NumericList(c.x) /\ IsNumber(c.f_val)
    /\ IsNumber(c.step_value)

\* Whether a number has no fractional part.
IsWhole(val) == val.t = "int" \/ (val.v[1] % 10 = 0 /\ val.v[2] = 0)

\* The value, point and step-norm of a record equal those of the call.
SamePayload(rec, c) ==
    /\ Len(rec.x) = Len(c.x.v)
    /\ \A i \in DOMAIN rec.x : PyEq(PyFloat(rec.x[i]), c.x.v[i])
    /\ rec.f.t = "float" /\ PyEq(rec.f, c.f_val)
    /\ rec.step_norm.t = "float" /\ PyEq(rec.step_norm, c.step_value)
    /\ rec.meta = EmptyMeta

\* C7 as claimed: for all numeric arguments the table is handed a record
\* equal to IterationResult(index=k, x=x, f=f_val, step_norm=step_value,
\* meta={}).
C7_AsClaimed ==
    (RowAdded("add_iteration_row") /\ NumericCall(last.args)) =>
        /\ PyEq(LastRow.iteration.index, last.args.k)
        /\ SamePayload(LastRow.iteration, last.args)

\* C7 amended: for numeric x, f_val and step_value the record's point,
\* value and step-norm equal the arguments and its metadata is empty; its
\* index equals k when k has no fractional part, and is k truncated toward
\* zero otherwise.
C7_RecordFromPrimitives ==
    (RowAdded("add_iteration_row") /\ NumericCall(last.args)) =>
        LET rec == LastRow.iteration
            k == py_float(last.args.k).v
            idx == <<10 * rec.index.v, 0>>
        IN  /\ SamePayload(rec, last.args)
            /\ rec.index.t = "int"
            /\ IsWhole(last.args.k) => PyEq(rec.index, last.args.k)
            /\ ~IsWhole(last.args.k) =>
                  /\ NumLess(NumAbs(idx), NumAbs(k))
                  /\ NumLess(NumAbs(k), NumAdd(NumAbs(idx), <<10, 0>>))
                  /\ NumLess(k, <<0, 0>>) <=> rec.index.v < 0

\* C7 witness: add_iteration_row(3, [1.0, 2.0], 5.5, 0.1) has added its row.
C7_Witness ==
    /\ RowAdded("add_iteration_row")
    /\ last.args = RowCall(PyInt(3), BaseX, PyFloat(<<55, 0>>), PyFloat(<<1, 0>>))
    /\ LastRow.iteration =
          IterationResult(PyInt(3), << <<10, 0>>, <<20, 0>> >>, PyFloat(<<55, 0>>),
                          PyFloat(<<1, 0>>), EmptyMeta)

IsZeroOrMissing(step_value) ==
    step_value \in {PyNone, PyInt(0), PyFloat(<<0, 0>>)}

NumericButStep(c) == IsNumber(c.k) /\ NumericList(c.x) /\ IsNumber(c.f_val)

\* The row a call with the step left out appends.
RowOfMissingStep(c) ==
    [iteration |->
        IterationResult(py_int(c.k), np_float_array(c.x), py_float(c.f_val),
                        PyFloat(<<0, 0>>), EmptyMeta),
     step_value |-> PyNone]

\* C8 as claimed: a call with a zero step has the effect of the call with
\* the step missing, in the record built and in the step value forwarded
\* with it.
C8_AsClaimed ==
    (/\ last.op = "add_iteration_row"
     /\ NumericButStep(last.args)
     /\ IsZeroOrMissing(last.args.step_value)) =>
        /\ last.raised = "none"
        /\ LastRow = RowOfMissingStep(last.args)

\* C8 amended: a zero step and a missing step build the same record, with
\* step-norm 0.0; the step value forwarded to the table alongside it is the
\* caller's own, 0 in one call and None in the other.
C8_ZeroAndMissingStep ==
    (/\ last.op = "add_iteration_row"
     /\ NumericButStep(last.args)
     /\ IsZeroOrMissing(last.args.step_value)) =>
        /\ last.raised = "none"
        /\ LastRow.iteration = RowOfMissingStep(last.args).iteration
        /\ LastRow.iteration.step_norm = PyFloat(<<0, 0>>)
        /\ LastRow.step_value = last.args.step_value

\* C8 witness: a row was added with step_value = 0, and the table was handed
\* 0, not None.
C8_Witness ==
    /\ RowAdded("add_iteration_row")
    /\ last.args.step_value = PyInt(0)
    /\ LastRow.iteration.step_norm = PyFloat(<<0, 0>>)
    /\ LastRow.step_value = PyInt(0)

Is2DRun(its) == its # <<>> /\ \A i \in DOMAIN its : Len(its[i].x) = 2

\* C9: when the objective function raises on a grid cell or a trajectory
\* point of a non-empty 2-dimensional run, the error reaches the caller of
\* update_contour_trajectory, and the failing call is the last call made to
\* the objective function.
C9_ObjectiveErrorPropagates ==
    (/\ last.op = "update_contour_trajectory"
     /\ Is2DRun(last.args.iterations)) =>
        LET calls == DEFAULT_GRID_SIZE * DEFAULT_GRID_SIZE
                     + Len(last.args.iterations)
            failAt == last.args.func.failAt
        IN  /\ failAt \in 1..calls =>
                  last.raised = "ObjectiveError" /\ last.evals = failAt
            /\ failAt \notin 1..calls =>
                  last.raised = "none" /\ last.evals = calls

\* C9 witness: the objective function raised on the second grid cell.
C9_Witness ==
    /\ last.op = "update_contour_trajectory"
    /\ Is2DRun(last.args.iterations)
    /\ last.args.func.failAt = 2
    /\ last.raised = "ObjectiveError"
    /\ last.evals = 2

\* A call with a non-numeric index, point or value, or a non-empty
\* non-numeric step.
MalformedCall(c) ==
    \/ ~IsNumber(c.k)
    \/ ~NumericList(c.x)
    \/ ~IsNumber(c.f_val)
    \/ (c.step_value.t = "str" /\ c.step_value.v # "")

ShowsNoData(pv) ==
    ~HasData(pv.ax_fk) /\ ~HasData(pv.ax_contour) /\ ~HasData(pv.ax_surface)

ArtistTags(ax) == [i \in DOMAIN ax.artists |-> ax.artists[i][1]]

\* An Axes that shows run data shows one whole drawing of it: the f(k)
\* curve, the contour plot with its trajectory and markers, or the surface
\* with its trajectory and markers.
IsRendering(ax) ==
    ArtistTags(ax) \in {<<"line">>,
                        <<"contour", "line", "start", "end">>,
                        <<"surface", "aura", "line", "start", "end">>}

Regions(pv) == {pv.ax_fk, pv.ax_contour, pv.ax_surface}

InPlaceholder(pv) == ShowsNoData(pv)

InPopulated(pv) ==
    /\ \E ax \in Regions(pv) : HasData(ax)
    /\ \A ax \in Regions(pv) : HasData(ax) => IsRendering(ax)

InExactlyOneState(pv) == InPlaceholder(pv) # InPopulated(pv)

AllPoints2D(its) == \A i \in DOMAIN its : Len(its[i].x) = 2

\* C11: a constructed PlotView is in Placeholder, and a show_placeholder,
\* plot_fk or plot_contour_trajectory call that returns normally takes a
\* view that is in exactly one of Placeholder (no region shows data) and
\* Populated to a view that is in exactly one of them: to Placeholder when
\* the call is show_placeholder or has an empty sequence, to Populated when
\* it is plot_fk on a non-empty sequence or plot_contour_trajectory on a
\* non-empty sequence of points of R^2.
C11_TwoStates ==
    /\ (last.op = "__init__" =>
            InPlaceholder(plot_view) /\ ~InPopulated(plot_view))
    /\ [][(/\ InExactlyOneState(plot_view)
           /\ last'.op \in {"show_placeholder", "plot_fk",
                            "plot_contour_trajectory"}
           /\ last'.raised = "none") =>
             /\ InExactlyOneState(plot_view')
             /\ last'.op = "show_placeholder" => InPlaceholder(plot_view')
             /\ (IsPlotCall(last') /\ last'.args.iterations = <<>>) =>
                    InPlaceholder(plot_view')
             /\ (last'.op = "plot_fk" /\ last'.args.iterations # <<>>) =>
                    InPopulated(plot_view')
             /\ (/\ last'.op = "plot_contour_trajectory"
                 /\ last'.args.iterations # <<>>
                 /\ AllPoints2D(last'.args.iterations)) =>
                    InPopulated(plot_view')]_vars

\* C11 witness: a plot_contour_trajectory call on points of R^2 has taken
\* a view showing no data to one whose contour and surface are drawn.
C11_Witness ==
    /\ last.op = "plot_contour_trajectory"
    /\ last.raised = "none"
    /\ ~last.before.fk /\ ~last.before.contour /\ ~last.before.surface
    /\ AllPoints2D(last.args.iterations)
    /\ InPopulated(plot_view)
    /\ HasData(plot_view.ax_contour) /\ HasData(plot_view.ax_surface)

NoPoint2D(its) == \A i \in DOMAIN its : Len(its[i].x) # 2

ReturnedForNon2D(l) ==
    /\ l.op = "plot_contour_trajectory"
    /\ l.raised = "none"
    /\ l.args.iterations # <<>>
    /\ NoPoint2D(l.args.iterations)

\* C12 as stated: after plot_contour_trajectory returns for a non-empty
\* sequence of non-2-dimensional points, no region of the view shows run
\* data.
C12_AsClaimed == ReturnedForNon2D(last) => ShowsNoData(plot_view)

\* C12: after plot_contour_trajectory returns for a non-empty sequence of
\* non-2-dimensional points, the contour and surface regions show their
\* "unsupported" captions and no run data, whatever they showed before,
\* and the f(k) region is as the call found it, so that the view shows no
\* run data exactly when the f(k) region showed none before the call.
C12_UnsupportedKeepsFk ==
    [][ReturnedForNon2D(last') =>
          /\ ShowsUnsupported(plot_view')
          /\ ~HasData(plot_view'.ax_contour)
          /\ ~HasData(plot_view'.ax_surface)
          /\ plot_view'.ax_fk = plot_view.ax_fk
          /\ ShowsNoData(plot_view') <=> ~HasData(plot_view.ax_fk)]_vars

\* C12 witness: the call has replaced a drawn contour and surface by the
\* captions while the f(k) curve of an earlier plot_fk is still shown.
C12_Witness ==
    /\ ReturnedForNon2D(last)
    /\ last.before.fk /\ last.before.contour /\ last.before.surface
    /\ ShowsUnsupported(plot_view)
    /\ HasData(plot_view.ax_fk)

\* The table after one more row: the rows it had, in their order, and one
\* row after them.
OneRowAppended(old, new) ==
    /\ Len(new) = Len(old) + 1
    /\ SubSeq(new, 1, Len(old)) = old

\* C13: every add_iteration call and every add_iteration_row call that
\* returns appends exactly one row after the rows the table holds (for
\* add_iteration the record and step value it was handed), an
\* add_iteration_row call that raises appends none, clear_results and
\* clear_iterations_table leave the table empty, and the plot and stat
\* updates leave the table as it is; so the table holds the rows added
\* since the last clear, in call order, and n adds after a clear give n
\* rows.
C13_TableHoldsAddsSinceClear ==
    [][/\ (last'.op = "add_iteration" =>
              /\ OneRowAppended(iterations_table, iterations_table')
              /\ iterations_table' =
                    Append(iterations_table,
                           [iteration |-> last'.args[1],
                            step_value |-> last'.args[2]])
              /\ Len(iterations_table') = last'.before.rows + 1)
       /\ (last'.op = "add_iteration_row" /\ last'.raised = "none" =>
              /\ OneRowAppended(iterations_table, iterations_table')
              /\ Len(iterations_table') = last'.before.rows + 1)
       /\ (last'.op = "add_iteration_row" /\ last'.raised # "none" =>
              iterations_table' = iterations_table)
       /\ (last'.op \in {"clear_results", "clear_iterations_table",
                         "_on_clear_requested"} =>
              iterations_table' = <<>>)
       /\ (last'.op \in {"update_fk_plot", "update_contour_trajectory",
                         "update_run_stats"} =>
              iterations_table' = iterations_table)]_vars

\* C13 witness: a second add after a clear has left two rows in the order
\* of the calls, the first from add_iteration and the second from
\* add_iteration_row.
C13_Witness ==
    /\ last.op = "add_iteration_row"
    /\ last.raised = "none"
    /\ last.before.rows = 1
    /\ Len(iterations_table) = 2
    /\ iterations_table[1].iteration \in WindowIters
    /\ iterations_table[2].iteration.index = PyInt(3)

Indices(its) == [i \in DOMAIN its |-> its[i].index]

Values(its) == [i \in DOMAIN its |-> its[i].f]

FirstPoint(its) == its[1].x

LastPoint(its) == its[Len(its)].x

\* The trajectory of its as an Axes shows it from position p on: the line
\* through the points in order, the start marker and the end marker.
ShowsTrajectoryFrom(ax, p, its) ==
    /\ Len(ax.artists) = p + 2
    /\ ax.artists[p] = <<"line", Column(its, 1), Column(its, 2)>>
    /\ ax.artists[p + 1] = <<"start", FirstPoint(its)[1], FirstPoint(its)[2]>>
    /\ ax.artists[p + 2] = <<"end", LastPoint(its)[1], LastPoint(its)[2]>>

DrewTrajectory(l) ==
    /\ l.op = "update_contour_trajectory"
    /\ l.raised = "none"
    /\ l.args.iterations # <<>>
    /\ AllPoints2D(l.args.iterations)

\* C14: after plot_fk(s) with non-empty s the f(k) region holds one curve,
\* the (index, f) pairs of s in order, and nothing else; after
\* plot_contour_trajectory(func, s) returns for non-empty s in R^2 the
\* contour region holds one contour plot and the surface region one
\* surface, each followed by the trajectory of s with the start marker at
\* its first point and the end marker at its last, and nothing else; both
\* regions are what the same call draws on a freshly constructed view.
C14_RegionsReplaced ==
    [][/\ (last'.op = "update_fk_plot" /\ last'.args.iterations # <<>> =>
              /\ plot_view'.ax_fk.artists =
                    << <<"line", Indices(last'.args.iterations),
                         Values(last'.args.iterations)>> >>
              /\ plot_view'.ax_fk =
                    plot_fk(PlotView_init, last'.args.iterations).pv.ax_fk)
       /\ (DrewTrajectory(last') =>
              LET its == last'.args.iterations
                  fresh == plot_contour_trajectory(
                               PlotView_init, last'.args.func, its,
                               DEFAULT_PADDING, DEFAULT_GRID_SIZE).pv
              IN  /\ plot_view'.ax_contour.artists[1][1] = "contour"
                  /\ ShowsTrajectoryFrom(plot_view'.ax_contour, 2, its)
                  /\ plot_view'.ax_surface.artists[1][1] = "surface"
                  /\ plot_view'.ax_surface.artists[2][1] = "aura"
                  /\ ShowsTrajectoryFrom(plot_view'.ax_surface, 3, its)
                  /\ plot_view'.ax_contour = fresh.ax_contour
                  /\ plot_view'.ax_surface = fresh.ax_surface)]_vars

\* C14 witness: a trajectory whose first and last points differ has been
\* drawn over a contour, a surface and an f(k) curve drawn before it.
C14_Witness ==
    /\ DrewTrajectory(last)
    /\ last.before.fk /\ last.before.contour /\ last.before.surface
    /\ FirstPoint(last.args.iterations) # LastPoint(last.args.iterations)
    /\ ShowsTrajectoryFrom(plot_view.ax_contour, 2, last.args.iterations)
    /\ plot_view.ax_contour.artists[3] # <<"start", LastPoint(last.args.iterations)[1],
                                           LastPoint(last.args.iterations)[2]>>

TableAndStats ==
    <<iterations_table, label_func_evals, label_outer_iters, label_last_step>>

\* C15: plot_fk on a non-empty sequence leaves the contour and surface
\* regions as they were; plot_contour_trajectory on a non-empty sequence,
\* whatever the dimension of its points and whether it returns or raises,
\* leaves the f(k) region as it was; neither changes the iteration table
\* or the stat labels.
C15_OwnRegionsOnly ==
    [][/\ (last'.op = "update_fk_plot" /\ last'.args.iterations # <<>> =>
              /\ plot_view'.ax_contour = plot_view.ax_contour
              /\ plot_view'.ax_surface = plot_view.ax_surface
              /\ TableAndStats' = TableAndStats)
       /\ (last'.op = "update_contour_trajectory"
               /\ last'.args.iterations # <<>> =>
              /\ plot_view'.ax_fk = plot_view.ax_fk
              /\ TableAndStats' = TableAndStats)]_vars

\* C15 witness: a non-empty plot_fk call has redrawn the f(k) curve of a
\* window that holds a row and set stats, and the contour and surface
\* drawn before it are still shown.
C15_Witness ==
    /\ last.op = "update_fk_plot"
    /\ last.args.iterations # <<>>
    /\ last.before.fk /\ last.before.contour /\ last.before.surface
    /\ HasData(plot_view.ax_contour) /\ HasData(plot_view.ax_surface)
    /\ iterations_table # <<>>
    /\ ~AllStatsAtGlyph

RaisesInGrid(l) ==
    /\ l.op = "plot_contour_trajectory"
    /\ l.args.iterations # <<>>
    /\ AllPoints2D(l.args.iterations)
    /\ l.args.func.failAt \in 1..(l.args.grid_size * l.args.grid_size)

\* C16: when the objective function raises during the grid evaluation of
\* plot_contour_trajectory on a non-empty sequence of points of R^2, the
\* call raises with the contour and surface regions cleared (what they
\* showed is gone and nothing of the new call is drawn) and the f(k)
\* region as it was; show_placeholder() or clear_results() on that view
\* gives the Placeholder state, as every show_placeholder() call does.
C16_FailedCallNotAtomic ==
    [][/\ (RaisesInGrid(last') =>
              /\ last'.raised = "ObjectiveError"
              /\ last'.evals = last'.args.func.failAt
              /\ plot_view'.ax_contour = BlankAxes
              /\ plot_view'.ax_surface = BlankAxes
              /\ plot_view'.ax_fk = plot_view.ax_fk
              /\ IsPlaceholderView(show_placeholder(plot_view'))
              /\ IsPlaceholderView(clear_results(Self').plot_view))
       /\ (last'.op = "show_placeholder" => IsPlaceholderView(plot_view'))]_vars

\* C16 witness: the objective function has raised in the grid loop of a
\* call on a view whose three regions were drawn; the contour and surface
\* are blank and the f(k) curve is still shown.
C16_Witness ==
    /\ RaisesInGrid(last)
    /\ last.raised = "ObjectiveError"
    /\ last.before.fk /\ last.before.contour /\ last.before.surface
    /\ plot_view.ax_contour.artists = <<>>
    /\ plot_view.ax_surface.artists = <<>>
    /\ HasData(plot_view.ax_fk)
    /\ ~IsPlaceholderView(plot_view)

====
